---- MODULE Spec2Model ----
(***************************************************************************)
(* Model of capi/bind_gen/src/node.rs: the Node.js binding generator of    *)
(* livesplit-core.  The module has four parts:                             *)
(*   - the type mapper (get_hl_type_with_null, get_hl_type_without_null,   *)
(*     get_ll_type) as operators, exercised by SpecTypes;                  *)
(*   - write_fn as an operator producing the emitted method (doc comment,  *)
(*     signature, body statements), and the semantics of the emitted       *)
(*     statements, exercised one call at a time by SpecFn;                 *)
(*   - write as a single linear pass over the class map, SpecGen;          *)
(*   - the emitted classes at run time (wrappers, dispose, with), Spec.    *)
(***************************************************************************)
EXTENDS Naturals, Sequences, FiniteSets, TLC

VARIABLES
    ty, mapped,                       \* type mapper: input descriptor, results
    function, binding, frame,         \* one emitted wrapper, its arguments, its run
    classes, type_script, out, gpc,   \* generator: input, mode, output, position
    model, heap, stack, pending, last, \* emitted classes at run time
    moved, drops                       \* history: handles given away, destructor calls

typeVars == <<ty, mapped>>
fnVars   == <<function, binding, frame>>
genVars  == <<classes, type_script, out, gpc>>
rtVars   == <<model, heap, stack, pending, last, moved, drops>>
vars     == <<ty, mapped, function, binding, frame, classes, type_script, out, gpc,
              model, heap, stack, pending, last, moved, drops>>

(***************************************************************************)
(* Data model: Type, TypeKind.                                             *)
(***************************************************************************)
Kinds == {"Ref", "RefMut", "Value"}

IntNames   == {"i8", "i16", "i32", "i64", "u8", "u16", "u32", "u64", "usize"}
FloatNames == {"f32", "f64"}
PrimNames  == IntNames \cup FloatNames \cup {"bool", "()", "c_char"}
\* the closed universe of non-custom type names: the primitives and Json
BuiltinNames == PrimNames \cup {"Json"}
\* names of user-defined classes used as custom types
ClassNames == {"Run", "SharedTimer", "Timer"}

Ty(name, kind, custom, nullable) ==
    [name |-> name, kind |-> kind, is_custom |-> custom, is_nullable |-> nullable]

BuiltinTypes == {Ty(n, k, FALSE, nl) : n \in BuiltinNames, k \in Kinds, nl \in BOOLEAN}
CustomTypes  == {Ty(n, k, TRUE, nl) : n \in ClassNames, k \in Kinds, nl \in BOOLEAN}
TypeUniverse == BuiltinTypes \cup CustomTypes

(***************************************************************************)
(* Type mapper.                                                            *)
(***************************************************************************)
\* the inner match on the name, with its default arm `x => x`
HlPrimTable(t) ==
    CASE t \in IntNames   -> "number"
      [] t \in FloatNames -> "number"
      [] t = "bool"       -> "boolean"
      [] t = "()"         -> "void"
      [] t = "c_char"     -> "string"
      [] t = "Json"       -> "any"
      [] OTHER            -> t

\* pointers to primitives mapped by name instead of to Buffer
get_hl_type_without_null_ByName(t) ==
    IF t.is_custom
    THEN CASE t.kind = "Ref"    -> t.name \o "Ref"
           [] t.kind = "RefMut" -> t.name \o "RefMut"
           [] t.kind = "Value"  -> t.name
    ELSE HlPrimTable(t.name)

get_hl_type_without_null(t) ==
    IF t.is_custom
    THEN CASE t.kind = "Ref"    -> t.name \o "Ref"
           [] t.kind = "RefMut" -> t.name \o "RefMut"
           [] t.kind = "Value"  -> t.name
    ELSE CASE t.kind = "Ref" /\ t.name = "c_char" -> "string"
           [] t.kind \in {"Ref", "RefMut"}        -> "Buffer"
           [] ~t.is_custom                        -> HlPrimTable(t.name)
           [] OTHER                               -> "unreachable!"

get_hl_type_with_null(t) ==
    IF t.is_nullable
    THEN get_hl_type_without_null(t) \o " | null"
    ELSE get_hl_type_without_null(t)

LlPrimTable(t) ==
    CASE t = "i8"     -> "'int8'"
      [] t = "i16"    -> "'int16'"
      [] t = "i32"    -> "'int32'"
      [] t = "i64"    -> "'int64'"
      [] t = "u8"     -> "'uint8'"
      [] t = "u16"    -> "'uint16'"
      [] t = "u32"    -> "'uint32'"
      [] t = "u64"    -> "'uint64'"
      [] t = "usize"  -> "'size_t'"
      [] t = "f32"    -> "'float'"
      [] t = "f64"    -> "'double'"
      [] t = "bool"   -> "'bool'"
      [] t = "()"     -> "'void'"
      [] t = "c_char" -> "'char'"
      [] OTHER        -> t

get_ll_type(t) ==
    CASE (t.kind = "Ref" /\ t.name = "c_char") \/ t.name = "Json" -> "'CString'"
      [] t.kind \in {"Ref", "RefMut"}                             -> "'pointer'"
      [] ~t.is_custom                                             -> LlPrimTable(t.name)
      [] OTHER                                                    -> "'pointer'"

NoMapping == [hl |-> "", hl_null |-> "", ll |-> ""]

\* ---- the type mapper applied to one descriptor
MapHighLevel ==
    /\ mapped.hl = ""
    /\ mapped' = [mapped EXCEPT !.hl = get_hl_type_without_null(ty),
                                !.hl_null = get_hl_type_with_null(ty)]
    /\ UNCHANGED <<ty, fnVars, genVars, rtVars>>

MapLowLevel ==
    /\ mapped.ll = ""
    /\ mapped' = [mapped EXCEPT !.ll = get_ll_type(ty)]
    /\ UNCHANGED <<ty, fnVars, genVars, rtVars>>

(***************************************************************************)
(* Data model: Function.  is_static and has_return_type are methods of     *)
(* Function defined beside the collector; to_mixed_case is heck's.         *)
(***************************************************************************)
Fn(name, method, inputs, output) ==
    [name |-> name, method |-> method, inputs |-> inputs, output |-> output]

Input(name, t) == [name |-> name, ty |-> t]

is_static(f) ==
    IF Len(f.inputs) > 0 THEN f.inputs[1].name # "this" ELSE TRUE

has_return_type(f) == f.output.name # "()"

\* snake_case to mixedCase, on the identifiers the model uses
to_mixed_case(s) ==
    CASE s = "other_run"   -> "otherRun"
      [] s = "comparison_name" -> "comparisonName"
      [] s = "into_shared" -> "intoShared"
      [] s = "current_phase" -> "currentPhase"
      [] s = "set_run"     -> "setRun"
      [] s = "game_name"   -> "gameName"
      [] s = "set_game_name" -> "setGameName"
      [] OTHER             -> s

Skip(seq, n) == SubSeq(seq, n + 1, Len(seq))

(***************************************************************************)
(* write_fn: the emitted method as a record: the documentation comment,    *)
(* the signature and the body as a sequence of statements.                 *)
(***************************************************************************)
NoArgs == <<>>

Stmt(op, name, cls, fn, args, flag) ==
    [op |-> op, name |-> name, cls |-> cls, fn |-> fn, args |-> args, flag |-> flag]

\* if (ref.isNull(<name>.ptr)) { throw "<name> is disposed"; }
CheckStmt(name) == Stmt("check", name, "", "", NoArgs, FALSE)
\* [var result = ][new <cls>(]liveSplitCoreNative.<fn>(<args>)[)];
CallStmt(fn, args, assign, cls) == Stmt("call", "", cls, fn, args, assign)
\* <name>.ptr = ref.NULL;
NullStmt(name) == Stmt("null", name, "", "", NoArgs, FALSE)
\* if (ref.isNull(result.ptr)) { return null; }
NullRetStmt == Stmt("nullret", "", "", "", NoArgs, FALSE)
\* return result;  or  return JSON.parse(result);
ReturnStmt(json) == Stmt("return", "", "", "", NoArgs, json)

Arg(form, name) == [form |-> form, name |-> name]

\* lines 156-167: one disposal check per custom-typed input, in order
RECURSIVE EmitChecks(_)
EmitChecks(inputs) ==
    IF inputs = <<>> THEN <<>>
    ELSE (IF Head(inputs).ty.is_custom
          THEN <<CheckStmt(to_mixed_case(Head(inputs).name))>>
          ELSE <<>>) \o EmitChecks(Tail(inputs))

\* lines 179-196: the argument expressions, in declaration order
EmitArg(in) ==
    IF in.name = "this" THEN Arg("this.ptr", "this")
    ELSE IF in.ty.name = "Json" THEN Arg("stringify", to_mixed_case(in.name))
    ELSE IF in.ty.is_custom THEN Arg("ptr", to_mixed_case(in.name))
    ELSE Arg("plain", to_mixed_case(in.name))

EmitArgs(inputs) == [i \in 1..Len(inputs) |-> EmitArg(inputs[i])]

\* lines 169-204: the native call, wrapped in `new <Class>(...)` for a custom output
EmitCall(f) ==
    <<CallStmt(f.name, EmitArgs(f.inputs), has_return_type(f),
               IF has_return_type(f) /\ f.output.is_custom
               THEN get_hl_type_without_null(f.output) ELSE "")>>

\* the handle of every custom input nulled, whatever its kind
RECURSIVE EmitNulls_AnyKind(_)
EmitNulls_AnyKind(inputs) ==
    IF inputs = <<>> THEN <<>>
    ELSE (IF Head(inputs).ty.is_custom
          THEN <<NullStmt(to_mixed_case(Head(inputs).name))>>
          ELSE <<>>) \o EmitNulls_AnyKind(Tail(inputs))

\* lines 206-215: null the handle of every custom input of kind Value
RECURSIVE EmitNulls(_)
EmitNulls(inputs) ==
    IF inputs = <<>> THEN <<>>
    ELSE (IF Head(inputs).ty.is_custom /\ Head(inputs).ty.kind = "Value"
          THEN <<NullStmt(to_mixed_case(Head(inputs).name))>>
          ELSE <<>>) \o EmitNulls(Tail(inputs))

\* the return without the nullable-result check
EmitReturn_NoNullCheck(f) ==
    IF has_return_type(f) THEN <<ReturnStmt(f.output.name = "Json")>> ELSE <<>>

\* lines 217-240: the nullable-result check and the return
EmitReturn(f) ==
    IF has_return_type(f)
    THEN (IF f.output.is_nullable /\ f.output.is_custom THEN <<NullRetStmt>> ELSE <<>>)
         \o <<ReturnStmt(f.output.name = "Json")>>
    ELSE <<>>

EmitBody(f) == EmitChecks(f.inputs) \o EmitCall(f) \o EmitNulls(f.inputs) \o EmitReturn(f)

\* the parameters that appear in the signature: all but a leading `this`
SigInputs(f) == Skip(f.inputs, IF is_static(f) THEN 0 ELSE 1)

\* lines 85-116: the documentation comment (documented mode only)
EmitDoc(f, ts) ==
    IF ts THEN <<>>
    ELSE [i \in 1..Len(SigInputs(f)) |->
            [tag |-> "@param", type |-> get_hl_type_with_null(SigInputs(f)[i].ty),
             name |-> to_mixed_case(SigInputs(f)[i].name)]]
         \o (IF has_return_type(f)
             THEN <<[tag |-> "@return", type |-> get_hl_type_with_null(f.output),
                     name |-> ""]>>
             ELSE <<>>)

\* lines 126-139: the parameter list, annotated in typed mode only
EmitParams(f, ts) ==
    [i \in 1..Len(SigInputs(f)) |->
        [name |-> to_mixed_case(SigInputs(f)[i].name),
         ann |-> IF ts THEN get_hl_type_with_null(SigInputs(f)[i].ty) ELSE ""]]

Method(name, static, has_doc, doc, params, ret_ann, native, body) ==
    [name |-> name, static |-> static, has_doc |-> has_doc, doc |-> doc,
     params |-> params, ret_ann |-> ret_ann, native |-> native, body |-> body]

write_fn(f, ts) ==
    Method(to_mixed_case(f.method), is_static(f), ~ts, EmitDoc(f, ts),
           EmitParams(f, ts),
           IF ts /\ has_return_type(f) THEN get_hl_type_with_null(f.output) ELSE "",
           f.name, EmitBody(f))

(***************************************************************************)
(* Data model: Class, and the class map (a BTreeMap, here the sequence of  *)
(* its entries in key order).                                              *)
(***************************************************************************)
Class(static_fns, own_fns, shared_fns, mut_fns) ==
    [static_fns |-> static_fns, own_fns |-> own_fns,
     shared_fns |-> shared_fns, mut_fns |-> mut_fns]

Entry(name, class) == [name |-> name, class |-> class]

RECURSIVE MapSeq(_, _)
MapSeq(fns, ts) ==
    IF fns = <<>> THEN <<>> ELSE <<write_fn(Head(fns), ts)>> \o MapSeq(Tail(fns), ts)

IsNotDrop(f) == f.method # "drop"
IsDrop(f) == f.method = "drop"

(***************************************************************************)
(* write: the built-in and per-class extension methods.                    *)
(***************************************************************************)
Param(name, ann) == [name |-> name, ann |-> ann]
DocParam(type, name) == [tag |-> "@param", type |-> type, name |-> name]
DocReturn(type) == [tag |-> "@return", type |-> type, name |-> ""]

\* closure(this); this.dispose();  without the finally clause
WithStmt_NoFinally == Stmt("with", "closure", "", "", NoArgs, FALSE)

\* try { closure(this); } finally { this.dispose(); }
WithStmt == Stmt("with", "closure", "", "", NoArgs, TRUE)

\* if (!ref.isNull(this.ptr)) { [liveSplitCoreNative.<drop>(this.ptr);] this.ptr = ref.NULL; }
DisposeStmt(drop) == Stmt("dispose", "this", "", drop, NoArgs, TRUE)

\* lines 445-472
WithMethod(class_name, ts) ==
    Method("with", FALSE, ~ts,
           IF ts THEN <<>> ELSE <<DocParam("function(" \o class_name \o ")", "closure")>>,
           <<Param("closure", IF ts THEN "(obj: " \o class_name \o ") => void" ELSE "")>>,
           "", "", <<WithStmt>>)

\* line 477: the native destructor of the class, "" when it declares none
DropFn(class) ==
    IF SelectSeq(class.own_fns, IsDrop) = <<>> THEN ""
    ELSE Head(SelectSeq(class.own_fns, IsDrop)).name

\* lines 473-492
DisposeMethod(class) ==
    Method("dispose", FALSE, FALSE, <<>>, <<>>, "", "", <<DisposeStmt(DropFn(class))>>)

\* lines 382-403
Constructor(ts) ==
    Method("constructor", FALSE, ~ts,
           IF ts THEN <<>> ELSE <<DocParam("Buffer", "ptr")>>,
           <<Param("ptr", IF ts THEN "Buffer" ELSE "")>>,
           "", "", <<Stmt("setptr", "ptr", "", "", NoArgs, FALSE)>>)

\* lines 340-380: this.<lock>().with(function (lock) { action(lock.timer()); });
LockWith(name, lock, view, ts) ==
    Method(name, FALSE, ~ts,
           IF ts THEN <<>> ELSE <<DocParam("function(" \o view \o ")", "action")>>,
           <<Param("action", IF ts THEN "(timer: " \o view \o ") => void" ELSE "")>>,
           "", "", <<Stmt("lockwith", lock, "", "", NoArgs, FALSE)>>)

SharedTimerMethods(ts) ==
    <<LockWith("readWith", "read", "TimerRef", ts),
      LockWith("writeWith", "write", "TimerRefMut", ts)>>

ParseBody(how) == <<Stmt("parse", how, "Run", "", NoArgs, FALSE)>>

\* lines 500-556: the documented branch annotates parseFile and parseString inline
RunMethods(ts) ==
    IF ts
    THEN <<Method("parseArray", TRUE, FALSE, <<>>, <<Param("data", "Int8Array")>>,
                  "Run", "", ParseBody("array")),
           Method("parseFile", TRUE, FALSE, <<>>, <<Param("file", "any")>>,
                  "", "", ParseBody("file")),
           Method("parseString", TRUE, FALSE, <<>>, <<Param("text", "string")>>,
                  "Run", "", ParseBody("string"))>>
    ELSE <<Method("parseArray", TRUE, TRUE,
                  <<DocParam("Int8Array", "data"), DocReturn("Run")>>,
                  <<Param("data", "")>>, "", "", ParseBody("array")),
           Method("parseFile", TRUE, TRUE,
                  <<DocParam("string | Buffer | number", "file"), DocReturn("Run")>>,
                  <<Param("file", "any")>>, "", "", ParseBody("file")),
           Method("parseString", TRUE, TRUE,
                  <<DocParam("string", "text"), DocReturn("Run")>>,
                  <<Param("text", "string")>>, "Run", "", ParseBody("string"))>>

(***************************************************************************)
(* write: the binding table and the three classes of one class.            *)
(***************************************************************************)
Item(kind, name, base, export, field, methods, tags) ==
    [kind |-> kind, name |-> name, base |-> base, export |-> export,
     field |-> field, methods |-> methods, tags |-> tags]

\* lines 256-280
Header(ts) == Item("header", IF ts THEN "import" ELSE "require", "", FALSE, FALSE, <<>>, <<>>)

\* lines 283-288: static, own, shared, mut
AllFns(class) ==
    class.static_fns \o class.own_fns \o class.shared_fns \o class.mut_fns

\* lines 290-305
BindingEntry(f) ==
    Item("binding", f.name, "", FALSE, FALSE, <<>>,
         <<get_ll_type(f.output)>> \o [i \in 1..Len(f.inputs) |-> get_ll_type(f.inputs[i].ty)])

RECURSIVE BindingTable(_)
BindingTable(cs) ==
    IF cs = <<>> THEN <<>>
    ELSE [i \in 1..Len(AllFns(Head(cs).class)) |-> BindingEntry(AllFns(Head(cs).class)[i])]
         \o BindingTable(Tail(cs))

\* export: the `export` keyword (typed mode); field: the `ptr: Buffer;` declaration
ClassItem(name, base, export, field, methods) ==
    Item("class", name, base, export, field, methods, <<>>)

\* exports.<name> = <name>;   (documented mode only)
Exports(name, ts) ==
    IF ts THEN <<>> ELSE <<Item("exports", name, "", FALSE, FALSE, <<>>, <<>>)>>

\* lines 316-404
RefClass(e, ts) ==
    ClassItem(e.name \o "Ref", "", ts, ts,
              MapSeq(e.class.shared_fns, ts)
              \o (IF e.name = "SharedTimer" THEN SharedTimerMethods(ts) ELSE <<>>)
              \o <<Constructor(ts)>>)

\* lines 405-428
RefMutClass(e, ts) ==
    ClassItem(e.name \o "RefMut", e.name \o "Ref", ts, FALSE, MapSeq(e.class.mut_fns, ts))

\* every static and own function, the destructor included
OwningFns_WithDrop(class) == class.static_fns \o class.own_fns

\* lines 494-498
OwningFns(class) == SelectSeq(class.static_fns \o class.own_fns, IsNotDrop)

\* lines 429-561
OwningClass(e, ts) ==
    ClassItem(e.name, e.name \o "RefMut", ts, FALSE,
              <<WithMethod(e.name, ts), DisposeMethod(e.class)>>
              \o MapSeq(OwningFns(e.class), ts)
              \o (IF e.name = "Run" THEN RunMethods(ts) ELSE <<>>))

\* lines 316-572: the block of one class
ClassBlock(e, ts) ==
    <<RefClass(e, ts)>> \o Exports(e.name \o "Ref", ts)
    \o <<RefMutClass(e, ts)>> \o Exports(e.name \o "RefMut", ts)
    \o <<OwningClass(e, ts)>> \o Exports(e.name, ts)

RECURSIVE ClassBlocks(_, _)
ClassBlocks(cs, ts) ==
    IF cs = <<>> THEN <<>> ELSE ClassBlock(Head(cs), ts) \o ClassBlocks(Tail(cs), ts)

\* lines 251-575: the whole output
write(cs, ts) == <<Header(ts)>> \o BindingTable(cs) \o ClassBlocks(cs, ts)

(***************************************************************************)
(* What the emitted statements do when the host runs them.  A wrapper is   *)
(* an object with a `ptr` field; `ref.NULL` is the handle 0.  Reading      *)
(* `.ptr` of the host's null raises the host's TypeError.                  *)
(***************************************************************************)
NULL == 0

Val(t, id) == [t |-> t, id |-> id]
Obj(i)     == Val("obj", i)
JSNull     == Val("null", 0)
Undefined  == Val("undef", 0)
Prim       == Val("prim", 0)

Wrapper(cls, ptr) == [cls |-> cls, ptr |-> ptr]

Ev(e, name, handles) == [e |-> e, name |-> name, handles |-> handles]

Disposed(name) == name \o " is disposed"

Throw(st, err) ==
    [st EXCEPT !.status = "threw", !.err = err,
               !.events = Append(@, Ev("throw", err, <<>>))]

Return(st, v) ==
    [st EXCEPT !.status = "returned", !.ret = v,
               !.events = Append(@, Ev("return", "", <<>>))]

IsObj(st, name) == st.env[name].t = "obj"
PtrOf(st, name) == st.heap[st.env[name].id].ptr

\* if (ref.isNull(<name>.ptr)) { throw "<name> is disposed"; }
ExecCheck(s, st) ==
    IF ~IsObj(st, s.name) THEN Throw(st, "TypeError")
    ELSE IF PtrOf(st, s.name) = NULL THEN Throw(st, Disposed(s.name))
    ELSE [st EXCEPT !.events = Append(@, Ev("check", s.name, <<>>))]

ArgIsPtr(a) == a.form \in {"this.ptr", "ptr"}

\* the handle an argument expression passes; NULL stands for a non-handle argument
ArgHandle(a, st) == IF ArgIsPtr(a) THEN PtrOf(st, a.name) ELSE NULL

\* [var result = ][new <cls>(]liveSplitCoreNative.<fn>(<args>)[)];
\* raw is what the native function returns
ExecCall(s, st, raw) ==
    IF \E i \in 1..Len(s.args) : ArgIsPtr(s.args[i]) /\ ~IsObj(st, s.args[i].name)
    THEN Throw(st, "TypeError")
    ELSE LET called == Append(st.events,
                         Ev("native", s.fn,
                            [i \in 1..Len(s.args) |-> ArgHandle(s.args[i], st)]))
         IN IF s.cls # ""
            THEN [st EXCEPT !.heap = Append(@, Wrapper(s.cls, raw)),
                            !.result = Obj(Len(st.heap) + 1),
                            !.events = Append(called, Ev("new", s.cls, <<raw>>))]
            ELSE [st EXCEPT !.result = IF s.flag THEN Prim ELSE Undefined,
                            !.events = called]

\* <name>.ptr = ref.NULL;
ExecNull(s, st) ==
    IF ~IsObj(st, s.name) THEN Throw(st, "TypeError")
    ELSE [st EXCEPT !.heap[st.env[s.name].id].ptr = NULL,
                    !.events = Append(@, Ev("setnull", s.name, <<>>))]

\* if (ref.isNull(result.ptr)) { return null; }
ExecNullRet(s, st) ==
    IF st.result.t # "obj" THEN Throw(st, "TypeError")
    ELSE IF st.heap[st.result.id].ptr = NULL THEN Return(st, JSNull)
    ELSE st

\* return result;  or  return JSON.parse(result);
ExecReturn(s, st) == Return(st, st.result)

\* this.ptr = ref.NULL;  without the test of the handle: the destructor runs each time
ExecDispose_NoGuard(s, st) ==
    [st EXCEPT !.heap[st.env["this"].id].ptr = NULL,
               !.events = (IF s.fn # ""
                           THEN Append(@, Ev("native", s.fn, <<PtrOf(st, "this")>>))
                           ELSE @) \o <<Ev("setnull", "this", <<>>)>>]

\* if (!ref.isNull(this.ptr)) { [liveSplitCoreNative.<drop>(this.ptr);] this.ptr = ref.NULL; }
ExecDispose(s, st) ==
    IF PtrOf(st, "this") = NULL THEN st
    ELSE [st EXCEPT !.heap[st.env["this"].id].ptr = NULL,
                    !.events = (IF s.fn # ""
                                THEN Append(@, Ev("native", s.fn, <<PtrOf(st, "this")>>))
                                ELSE @) \o <<Ev("setnull", "this", <<>>)>>]

ExecStmt(s, st, raw) ==
    CASE s.op = "check"   -> ExecCheck(s, st)
      [] s.op = "dispose" -> ExecDispose(s, st)
      [] s.op = "call"    -> ExecCall(s, st, raw)
      [] s.op = "null"    -> ExecNull(s, st)
      [] s.op = "nullret" -> ExecNullRet(s, st)
      [] s.op = "return"  -> ExecReturn(s, st)

\* the whole body, from statement pc on; falling off the end returns undefined
RECURSIVE RunBody(_, _, _, _)
RunBody(body, pc, st, raw) ==
    IF st.status # "run" THEN st
    ELSE IF pc > Len(body) THEN Return(st, Undefined)
    ELSE CHOOSE end \in { RunBody(body, pc + 1, s, raw) :
                             s \in {ExecStmt(body[pc], st, raw)} } : TRUE

\* the handle a native constructor hands out for the next wrapper of a heap
Fresh(h) == Len(h) + 1

\* what the native function may return: a nullable custom output may be null
RawResults(f, h) ==
    IF f.output.is_custom /\ f.output.is_nullable THEN {Fresh(h), NULL} ELSE {Fresh(h)}

(***************************************************************************)
(* One call of one emitted wrapper (SpecFn).  The function descriptor is   *)
(* any of a bounded universe; every custom-typed argument is a live        *)
(* wrapper, a disposed wrapper or, where the parameter's type annotation   *)
(* admits it (`X | null`), the host's null.                                *)
(***************************************************************************)
MaxParams == 2

ParamName(i) ==
    CASE i = 1 -> "run"
      [] i = 2 -> "other_run"
      [] i = 3 -> "layout"
      [] OTHER -> "comparison_name"

ParamTypeSet ==
    { Ty("Run", "Ref", TRUE, FALSE), Ty("Run", "Value", TRUE, FALSE),
      Ty("Run", "Value", TRUE, TRUE), Ty("Json", "Value", FALSE, FALSE),
      Ty("i32", "Value", FALSE, FALSE) }

OutTypeSet ==
    { Ty("()", "Value", FALSE, FALSE), Ty("i32", "Value", FALSE, FALSE),
      Ty("Json", "Value", FALSE, FALSE), Ty("Timer", "Value", TRUE, FALSE),
      Ty("Timer", "Value", TRUE, TRUE) }

Receivers == {<<>>} \cup {<<Input("this", Ty("Timer", k, TRUE, FALSE))>> : k \in Kinds}

ParamLists ==
    UNION { { [i \in 1..n |-> Input(ParamName(i), ts[i])] : ts \in [1..n -> ParamTypeSet] }
            : n \in 0..MaxParams }

FnUniverse ==
    { Fn("Timer_set_run", "set_run", r \o ps, o) :
        r \in Receivers, ps \in ParamLists, o \in OutTypeSet }

\* the arguments a caller may pass for an input
ArgChoices(in) ==
    IF ~in.ty.is_custom THEN {"prim"}
    ELSE IF in.ty.is_nullable /\ in.name # "this" THEN {"live", "disposed", "null"}
    ELSE {"live", "disposed"}

Bindings(f) ==
    { b \in [1..Len(f.inputs) -> {"live", "disposed", "null", "prim"}] :
        \A i \in 1..Len(f.inputs) : b[i] \in ArgChoices(f.inputs[i]) }

\* argument i is wrapper i of the call's heap; its handle is i while it is live
ArgHeap(f, b) ==
    [i \in 1..Len(f.inputs) |->
        Wrapper(IF f.inputs[i].ty.is_custom
                THEN get_hl_type_without_null(f.inputs[i].ty) ELSE "",
                IF b[i] = "live" THEN i ELSE NULL)]

ArgValue(b, i) ==
    CASE b[i] \in {"live", "disposed"} -> Obj(i)
      [] b[i] = "null"                 -> JSNull
      [] OTHER                         -> Prim

InputIndex(f, n) == CHOOSE i \in 1..Len(f.inputs) : to_mixed_case(f.inputs[i].name) = n

ArgEnv(f, b) ==
    [n \in {to_mixed_case(f.inputs[i].name) : i \in 1..Len(f.inputs)} |->
        ArgValue(b, InputIndex(f, n))]

Frame(h, env, body, status) ==
    [heap |-> h, env |-> env, body |-> body, pc |-> 1, status |-> status,
     err |-> "", ret |-> Undefined, result |-> Undefined, events |-> <<>>]

NoFrame == Frame(<<>>, <<>>, <<>>, "none")

NoFn == Fn("", "", <<>>, Ty("()", "Value", FALSE, FALSE))

InitFn ==
    /\ function \in FnUniverse
    /\ binding \in Bindings(function)
    /\ frame = Frame(ArgHeap(function, binding), ArgEnv(function, binding),
                     write_fn(function, TRUE).body, "ready")
    /\ ty = Ty("()", "Value", FALSE, FALSE) /\ mapped = NoMapping
    /\ classes = <<>> /\ type_script = FALSE /\ out = <<>> /\ gpc = "idle"
    /\ model = "" /\ heap = <<>> /\ stack = <<>> /\ pending = "none" /\ last = <<>>
    /\ moved = <<>> /\ drops = <<>>

AtStmt(op) ==
    /\ frame.status = "run"
    /\ frame.pc <= Len(frame.body)
    /\ frame.body[frame.pc].op = op

Advance(st) == [st EXCEPT !.pc = frame.pc + 1]

\* the caller invokes the wrapper
Invoke ==
    /\ frame.status = "ready"
    /\ frame' = [frame EXCEPT !.status = "run"]
    /\ UNCHANGED <<function, binding, typeVars, genVars, rtVars>>

StepCheck ==
    /\ AtStmt("check")
    /\ frame' = Advance(ExecCheck(frame.body[frame.pc], frame))
    /\ UNCHANGED <<function, binding, typeVars, genVars, rtVars>>

StepCall ==
    /\ AtStmt("call")
    /\ \E raw \in RawResults(function, frame.heap) :
          frame' = Advance(ExecCall(frame.body[frame.pc], frame, raw))
    /\ UNCHANGED <<function, binding, typeVars, genVars, rtVars>>

StepNull ==
    /\ AtStmt("null")
    /\ frame' = Advance(ExecNull(frame.body[frame.pc], frame))
    /\ UNCHANGED <<function, binding, typeVars, genVars, rtVars>>

StepNullRet ==
    /\ AtStmt("nullret")
    /\ frame' = Advance(ExecNullRet(frame.body[frame.pc], frame))
    /\ UNCHANGED <<function, binding, typeVars, genVars, rtVars>>

StepReturn ==
    /\ AtStmt("return")
    /\ frame' = Advance(ExecReturn(frame.body[frame.pc], frame))
    /\ UNCHANGED <<function, binding, typeVars, genVars, rtVars>>

\* a body without a return statement ends after its last statement
StepEnd ==
    /\ frame.status = "run"
    /\ frame.pc > Len(frame.body)
    /\ frame' = Return(frame, Undefined)
    /\ UNCHANGED <<function, binding, typeVars, genVars, rtVars>>

NextFn ==
    \/ Invoke
    \/ StepCheck
    \/ StepCall
    \/ StepNull
    \/ StepNullRet
    \/ StepReturn
    \/ StepEnd

InitTypes ==
    /\ ty \in TypeUniverse /\ mapped = NoMapping
    /\ function = NoFn /\ binding = <<>> /\ frame = NoFrame
    /\ classes = <<>> /\ type_script = FALSE /\ out = <<>> /\ gpc = "idle"
    /\ model = "" /\ heap = <<>> /\ stack = <<>> /\ pending = "none" /\ last = <<>>
    /\ moved = <<>> /\ drops = <<>>

NextTypes ==
    \/ MapHighLevel
    \/ MapLowLevel

SpecTypes == InitTypes /\ [][NextTypes]_vars

SpecFn == InitFn /\ [][NextFn]_vars

(***************************************************************************)
(* Properties of one call of an emitted wrapper (SpecFn).                  *)
(***************************************************************************)
InputIdx == 1..Len(function.inputs)
InName(i) == to_mixed_case(function.inputs[i].name)
IsCustomIn(i) == function.inputs[i].ty.is_custom
IsTransfer(i) == IsCustomIn(i) /\ function.inputs[i].ty.kind = "Value"

BodyIdx == 1..Len(frame.body)
CallIdx == CHOOSE k \in BodyIdx : frame.body[k].op = "call"
EventsOf(e) == {k \in 1..Len(frame.events) : frame.events[k].e = e}
NativeCalled == EventsOf("native") # {}
Finished == frame.status \in {"returned", "threw"}
InitialPtr(i) == ArgHeap(function, binding)[i].ptr
\* the wrapper `new <Class>(...)` creates is the first one after the arguments
ResultObj == Len(function.inputs) + 1

\* C1: the emitted body nulls the handle of an input exactly when the input is
\* custom-typed of kind Value (receiver included), with the assignment placed after
\* the native call and before any return; run, the body leaves the handle of every
\* other input as it was, changes a Value input's handle only after the native call,
\* and has nulled it when the call returns.
C1_ValueInputsNulledAfterCall ==
    \A i \in InputIdx :
        /\ (\E k \in BodyIdx : frame.body[k] = NullStmt(InName(i))) <=> IsTransfer(i)
        /\ \A k \in BodyIdx : frame.body[k] = NullStmt(InName(i)) =>
              /\ CallIdx < k
              /\ \A j \in BodyIdx : frame.body[j].op \in {"nullret", "return"} => k < j
        /\ ~IsTransfer(i) => frame.heap[i].ptr = InitialPtr(i)
        /\ frame.heap[i].ptr # InitialPtr(i) => NativeCalled
        /\ (IsTransfer(i) /\ frame.status = "returned") =>
              /\ frame.heap[i].ptr = NULL
              /\ \E k \in EventsOf("setnull") :
                    /\ frame.events[k].name = InName(i)
                    /\ \A n \in EventsOf("native") : n < k
                    /\ \A r \in EventsOf("return") : k < r

\* a call returned whose Value receiver was live and is now nulled, beside a borrowed
\* argument that is still live
C1_Witness ==
    /\ frame.status = "returned"
    /\ \E i, j \in InputIdx :
          /\ function.inputs[i].name = "this" /\ IsTransfer(i)
          /\ binding[i] = "live" /\ frame.heap[i].ptr = NULL
          /\ IsCustomIn(j) /\ function.inputs[j].ty.kind = "Ref"
          /\ frame.heap[j].ptr # NULL

DisposedArgs == {i \in InputIdx : IsCustomIn(i) /\ binding[i] = "disposed"}
FirstDisposed == CHOOSE i \in DisposedArgs : \A j \in DisposedArgs : i <= j

\* C2: every custom-typed input has a disposal check placed before the native call,
\* and a call with some custom-typed argument whose handle is null throws
\* "<name> is disposed" for the first such parameter and never reaches the native
\* function.
C2_DisposedArgumentThrows ==
    /\ \A i \in InputIdx : IsCustomIn(i) =>
          \E k \in BodyIdx : frame.body[k] = CheckStmt(InName(i)) /\ k < CallIdx
    /\ DisposedArgs # {} =>
          /\ ~NativeCalled
          /\ Finished =>
                /\ frame.status = "threw"
                /\ frame.err = Disposed(InName(FirstDisposed))

NullableCustomOutput == function.output.is_custom /\ function.output.is_nullable

\* C3 as stated: for a nullable custom output no wrapper instance is ever constructed
\* around a null handle, and a null raw handle yields a null result.
C3_NoWrapperAroundNull ==
    NullableCustomOutput =>
        /\ \A k \in EventsOf("new") : frame.events[k].handles[1] # NULL
        /\ (frame.status = "returned" /\ frame.ret.t = "obj") =>
              frame.heap[frame.ret.id].ptr # NULL

\* C3 amended: for a nullable custom output the body first wraps the raw result
\* (`new <Class>(native(...))`), then tests the new wrapper's handle and returns null
\* when it is null; the test follows the call and precedes the return, so the caller
\* gets null for a null raw handle and the wrapper otherwise.
C3_NullCheckedAfterWrap ==
    NullableCustomOutput =>
        /\ \E k \in BodyIdx :
              /\ frame.body[k] = NullRetStmt
              /\ CallIdx < k
              /\ frame.body[CallIdx].cls = get_hl_type_without_null(function.output)
              /\ \A j \in BodyIdx : frame.body[j].op = "return" => k < j
        /\ frame.status = "returned" =>
              /\ Len(frame.heap) = ResultObj
              /\ frame.ret = IF frame.heap[ResultObj].ptr = NULL
                             THEN JSNull ELSE Obj(ResultObj)

\* a call that wrapped a null raw handle and returned null
C3_Witness ==
    /\ NullableCustomOutput
    /\ frame.status = "returned"
    /\ frame.ret = JSNull
    /\ \E k \in EventsOf("new") : frame.events[k].handles[1] = NULL

\* C7: the only error an emitted wrapper raises is "<name> is disposed" for one of its
\* custom-typed parameters, raised before any native invocation; otherwise the call
\* reaches the native function and completes.
C7_OnlyDisposalErrors ==
    /\ frame.status = "threw" =>
          /\ \E i \in InputIdx : IsCustomIn(i) /\ frame.err = Disposed(InName(i))
          /\ ~NativeCalled
    /\ frame.status = "returned" => NativeCalled

(***************************************************************************)
(* Properties of the type mapper (SpecTypes).                              *)
(***************************************************************************)
\* the table of host types by primitive name
HostTypeOfName(n) ==
    CASE n \in IntNames \cup FloatNames -> "number"
      [] n = "bool"   -> "boolean"
      [] n = "()"     -> "void"
      [] n = "c_char" -> "string"
      [] n = "Json"   -> "any"

HostTypes == {"number", "boolean", "void", "string", "any", "Buffer"}

HlMapped == mapped.hl # "" /\ ~ty.is_custom

\* C9 as stated: for every kind, a non-custom descriptor of the closed universe maps
\* by its name alone: numbers, boolean, void, string for c_char, any for Json.
C9_TableForEveryKind ==
    HlMapped => mapped.hl = HostTypeOfName(ty.name)

\* C9 amended: the kind is matched before the name.  A Ref to c_char maps to string,
\* every other Ref or RefMut of a non-custom type (a pointer to an integer, float,
\* bool, unit or Json, and a RefMut to c_char) maps to Buffer, and only kind Value
\* maps by the table of names; no descriptor of the closed universe reaches the
\* default arm or the unreachable arm.
C9_KindBeforeTable ==
    HlMapped =>
        /\ mapped.hl = IF ty.kind = "Ref" /\ ty.name = "c_char" THEN "string"
                       ELSE IF ty.kind \in {"Ref", "RefMut"} THEN "Buffer"
                       ELSE HostTypeOfName(ty.name)
        /\ mapped.hl \in HostTypes

\* a pointer to an integer mapped to Buffer, not to number
C9_Witness ==
    /\ HlMapped
    /\ ty.kind = "RefMut" /\ ty.name = "u8"
    /\ mapped.hl = "Buffer"

(***************************************************************************)
(* The generation pass (SpecGen): header and binding table, then the block *)
(* of each class in key order, then Ok(()).  The class map is any map over *)
(* the three class names, each class full, without destructor, with its    *)
(* shared functions only, with its own functions only, or without any.     *)
(***************************************************************************)
Unit == Ty("()", "Value", FALSE, FALSE)
This(cls, kind) == Input("this", Ty(cls, kind, TRUE, FALSE))

RunClass ==
    Class(<<Fn("Run_new", "new", <<>>, Ty("Run", "Value", TRUE, FALSE)),
            Fn("Run_parse", "parse",
               <<Input("data", Ty("u8", "Ref", FALSE, FALSE)),
                 Input("length", Ty("usize", "Value", FALSE, FALSE))>>,
               Ty("Run", "Value", TRUE, TRUE))>>,
          <<Fn("Run_drop", "drop", <<This("Run", "Value")>>, Unit)>>,
          <<Fn("Run_game_name", "game_name", <<This("Run", "Ref")>>,
               Ty("c_char", "Ref", FALSE, FALSE))>>,
          <<Fn("Run_set_game_name", "set_game_name",
               <<This("Run", "RefMut"), Input("game", Ty("c_char", "Ref", FALSE, FALSE))>>,
               Unit)>>)

SharedTimerClass ==
    Class(<<>>,
          <<Fn("SharedTimer_drop", "drop", <<This("SharedTimer", "Value")>>, Unit)>>,
          <<Fn("SharedTimer_share", "share", <<This("SharedTimer", "Ref")>>,
               Ty("SharedTimer", "Value", TRUE, FALSE))>>,
          <<>>)

TimerClass ==
    Class(<<Fn("Timer_new", "new", <<Input("run", Ty("Run", "Value", TRUE, FALSE))>>,
               Ty("Timer", "Value", TRUE, TRUE))>>,
          <<Fn("Timer_into_shared", "into_shared", <<This("Timer", "Value")>>,
               Ty("SharedTimer", "Value", TRUE, FALSE)),
            Fn("Timer_drop", "drop", <<This("Timer", "Value")>>, Unit)>>,
          <<Fn("Timer_current_phase", "current_phase", <<This("Timer", "Ref")>>,
               Ty("u8", "Value", FALSE, FALSE))>>,
          <<Fn("Timer_set_run", "set_run",
               <<This("Timer", "RefMut"),
                 Input("comparison", Ty("Run", "Ref", TRUE, TRUE)),
                 Input("run", Ty("Run", "Value", TRUE, FALSE))>>,
               Ty("bool", "Value", FALSE, FALSE))>>)

SortedNames == <<"Run", "SharedTimer", "Timer">>

FullClass(name) ==
    CASE name = "Run"         -> RunClass
      [] name = "SharedTimer" -> SharedTimerClass
      [] name = "Timer"       -> TimerClass

Variants == {"absent", "full", "nodrop", "views", "owned", "bare"}

Variant(class, v) ==
    CASE v = "nodrop" -> [class EXCEPT !.own_fns = SelectSeq(@, IsNotDrop)]
      [] v = "views"  -> Class(<<>>, <<>>, class.shared_fns, <<>>)
      [] v = "owned"  -> Class(<<>>, class.own_fns, <<>>, <<>>)
      [] v = "bare"   -> Class(<<>>, <<>>, <<>>, <<>>)
      [] OTHER        -> class

RECURSIVE ClassMapFrom(_, _)
ClassMapFrom(choice, i) ==
    IF i > Len(SortedNames) THEN <<>>
    ELSE (IF choice[i] = "absent" THEN <<>>
          ELSE <<Entry(SortedNames[i], Variant(FullClass(SortedNames[i]), choice[i]))>>)
         \o ClassMapFrom(choice, i + 1)

ClassMaps == {ClassMapFrom(ch, 1) : ch \in [1..Len(SortedNames) -> Variants]}

Pos(phase, next) == [phase |-> phase, next |-> next]

InitGen ==
    /\ classes \in ClassMaps
    /\ type_script \in BOOLEAN
    /\ out = <<>>
    /\ gpc = Pos("start", 1)
    /\ ty = Ty("()", "Value", FALSE, FALSE) /\ mapped = NoMapping
    /\ function = NoFn /\ binding = <<>> /\ frame = NoFrame
    /\ model = "" /\ heap = <<>> /\ stack = <<>> /\ pending = "none" /\ last = <<>>
    /\ moved = <<>> /\ drops = <<>>

\* lines 256-314
WriteHeader ==
    /\ gpc.phase = "start"
    /\ out' = <<Header(type_script)>> \o BindingTable(classes)
    /\ gpc' = Pos("classes", 1)
    /\ UNCHANGED <<classes, type_script, typeVars, fnVars, rtVars>>

\* lines 316-572, one iteration
WriteClassBlock ==
    /\ gpc.phase = "classes"
    /\ gpc.next <= Len(classes)
    /\ out' = out \o ClassBlock(classes[gpc.next], type_script)
    /\ gpc' = Pos("classes", gpc.next + 1)
    /\ UNCHANGED <<classes, type_script, typeVars, fnVars, rtVars>>

\* line 574
Finish ==
    /\ gpc.phase = "classes"
    /\ gpc.next > Len(classes)
    /\ gpc' = Pos("done", gpc.next)
    /\ UNCHANGED <<classes, type_script, out, typeVars, fnVars, rtVars>>

NextGen ==
    \/ WriteHeader
    \/ WriteClassBlock
    \/ Finish

SpecGen == InitGen /\ [][NextGen]_vars

(***************************************************************************)
(* Properties of the generated output (SpecGen).                           *)
(***************************************************************************)
IsClassItem(it) == it.kind = "class"
IsBindingItem(it) == it.kind = "binding"
ClassItems == SelectSeq(out, IsClassItem)
Done == gpc.phase = "done"

IsWrapper(m) == m.native # ""
\* the native functions a class's write_fn-emitted methods wrap, in order
Natives(it) ==
    [i \in 1..Len(SelectSeq(it.methods, IsWrapper)) |->
        SelectSeq(it.methods, IsWrapper)[i].native]
FnNames(fns) == [i \in 1..Len(fns) |-> fns[i].name]

\* how many emitted methods wrap the native function n
TimesEmitted(n) ==
    Cardinality(UNION { { <<c, k>> : k \in { j \in 1..Len(ClassItems[c].methods) :
                                                ClassItems[c].methods[j].native = n } }
                        : c \in 1..Len(ClassItems) })

\* C8: for every class X the output holds exactly one XRef wrapping the shared_fns
\* only, one XRefMut extending XRef and wrapping the mut_fns only, one X extending
\* XRefMut and wrapping the static_fns and own_fns except drop; every function but the
\* destructor is emitted exactly once, and the destructor never as a method.
C8_ThreeTiers ==
    Done =>
        /\ Len(ClassItems) = 3 * Len(classes)
        /\ \A i \in 1..Len(classes) :
              LET x == classes[i].name
                  c == classes[i].class
                  r == ClassItems[3 * i - 2]
                  m == ClassItems[3 * i - 1]
                  o == ClassItems[3 * i]
              IN /\ r.name = x \o "Ref" /\ r.base = ""
                 /\ m.name = x \o "RefMut" /\ m.base = r.name
                 /\ o.name = x /\ o.base = m.name
                 /\ Natives(r) = FnNames(c.shared_fns)
                 /\ Natives(m) = FnNames(c.mut_fns)
                 /\ Natives(o) = FnNames(SelectSeq(c.static_fns \o c.own_fns, IsNotDrop))
                 /\ \A k \in 1..Len(AllFns(c)) :
                       TimesEmitted(AllFns(c)[k].name) =
                           IF IsDrop(AllFns(c)[k]) THEN 0 ELSE 1

\* the pass done over a map holding the full Timer class: its destructor is declared,
\* and the owning tier wraps Timer_new and Timer_into_shared only
C8_Witness ==
    /\ Done
    /\ \E i \in 1..Len(classes) :
          /\ classes[i] = Entry("Timer", TimerClass)
          /\ Natives(ClassItems[3 * i]) = <<"Timer_new", "Timer_into_shared">>
          /\ Natives(ClassItems[3 * i - 1]) = <<"Timer_set_run">>

EraseMethod(m) ==
    [m EXCEPT !.has_doc = FALSE, !.doc = <<>>, !.ret_ann = "",
              !.params = [k \in 1..Len(m.params) |-> Param(m.params[k].name, "")]]
EraseItem(it) ==
    [it EXCEPT !.export = FALSE, !.field = FALSE,
               !.methods = [k \in 1..Len(it.methods) |-> EraseMethod(it.methods[k])]]
IsShared(it) == it.kind \in {"binding", "class"}
\* the binding entries, classes and methods, without what the modes may differ in
Erased(o) == [k \in 1..Len(SelectSeq(o, IsShared)) |-> EraseItem(SelectSeq(o, IsShared)[k])]

Annotated(m) == m.ret_ann # "" \/ \E k \in 1..Len(m.params) : m.params[k].ann # ""

\* C10: both modes emit the same binding entries, classes and methods; in documented
\* mode no method signature carries an inline type annotation, and in typed mode no
\* method carries a documentation comment.
C10_ModesDifferOnlyInForm ==
    /\ Done => Erased(out) = Erased(write(classes, ~type_script))
    /\ \A c \in 1..Len(ClassItems) : \A k \in 1..Len(ClassItems[c].methods) :
          /\ ~type_script => ~Annotated(ClassItems[c].methods[k])
          /\ type_script => ~ClassItems[c].methods[k].has_doc

(***************************************************************************)
(* The emitted classes at run time (Spec).  A host program holds wrappers  *)
(* and calls the emitted methods on them: write_fn's wrappers, dispose and *)
(* with.  An error raised inside a closure leaves each enclosing `with`    *)
(* in turn; outside any closure the program catches it.                    *)
(***************************************************************************)
MaxHeap == 3
MaxDepth == 2

Range(seq) == {seq[k] : k \in 1..Len(seq)}

\* the class maps whose generated classes are run: the full Timer class beside the
\* Run and SharedTimer classes, the Run class declaring its destructor or not
RtModels == {"full", "nodrop"}

RECURSIVE FnSeq(_)
FnSeq(cs) == IF cs = <<>> THEN <<>> ELSE AllFns(Head(cs).class) \o FnSeq(Tail(cs))

\* the class map with the classes generated from it
Loaded(cs) ==
    [classes |-> cs, program |-> SelectSeq(write(cs, TRUE), IsClassItem), fns |-> FnSeq(cs)]

LoadedFull   == Loaded(ClassMapFrom(<<"owned", "owned", "full">>, 1))
LoadedNoDrop == Loaded(ClassMapFrom(<<"bare", "owned", "full">>, 1))
Running == IF model = "full" THEN LoadedFull ELSE LoadedNoDrop

ProgramClasses == Running.program
ClassIdx(cls) == CHOOSE c \in 1..Len(ProgramClasses) : ProgramClasses[c].name = cls
ItemOf(cls) == ProgramClasses[ClassIdx(cls)]
FnOf(m) == Running.fns[CHOOSE k \in 1..Len(Running.fns) : Running.fns[k].name = m.native]

\* a method of the program: class c, position k
MethodAt(ck) == ProgramClasses[ck[1]].methods[ck[2]]
MethodsNamed(cls, name) ==
    { <<ClassIdx(cls), k>> : k \in { j \in 1..Len(ItemOf(cls).methods) :
                                       ItemOf(cls).methods[j].name = name } }

\* the method a call of <name> on an instance of cls reaches, along `extends`
RECURSIVE Lookup(_, _)
Lookup(cls, name) ==
    IF cls = "" THEN {}
    ELSE IF MethodsNamed(cls, name) # {} THEN MethodsNamed(cls, name)
    ELSE Lookup(ItemOf(cls).base, name)

RECURSIVE IsInstance(_, _)
IsInstance(cls, target) ==
    cls # "" /\ (cls = target \/ IsInstance(ItemOf(cls).base, target))

WrappersIn(c, static) ==
    { <<c, k>> : k \in { j \in 1..Len(ProgramClasses[c].methods) :
                           /\ IsWrapper(ProgramClasses[c].methods[j])
                           /\ ProgramClasses[c].methods[j].static = static } }

\* the wrappers callable on an instance of cls: its own and the inherited ones
RECURSIVE InstanceWrappers(_)
InstanceWrappers(cls) ==
    IF cls = "" THEN {}
    ELSE WrappersIn(ClassIdx(cls), FALSE) \cup InstanceWrappers(ItemOf(cls).base)

StaticWrappers == UNION {WrappersIn(c, TRUE) : c \in 1..Len(ProgramClasses)}

HeapIdx == 1..Len(heap)

\* the arguments the annotation of an input admits, among the program's wrappers
Admitted(in) ==
    IF ~in.ty.is_custom THEN {Prim}
    ELSE {Obj(j) : j \in {k \in HeapIdx :
                            IsInstance(heap[k].cls, get_hl_type_without_null(in.ty))}}
         \cup (IF in.ty.is_nullable THEN {JSNull} ELSE {})

\* the argument lists a call may pass: the receiver for `this`, an admitted value else
RECURSIVE ArgLists(_, _)
ArgLists(inputs, receiver) ==
    IF inputs = <<>> THEN {<<>>}
    ELSE { <<h>> \o t :
             h \in (IF Head(inputs).name = "this" THEN {receiver}
                    ELSE Admitted(Head(inputs))),
             t \in ArgLists(Tail(inputs), receiver) }

ArgTuples(f, receiver) == ArgLists(f.inputs, receiver)

EnvOf(f, a) ==
    [n \in {to_mixed_case(f.inputs[i].name) : i \in 1..Len(f.inputs)} |->
        a[InputIndex(f, n)]]

ObjIds(a) == [i \in 1..Len(a) |-> IF a[i].t = "obj" THEN a[i].id ELSE 0]

NativeEvents(evs) == {k \in 1..Len(evs) : evs[k].e = "native"}

Op(op, fn, objs, st, path, before) ==
    [op |-> op, fn |-> fn, objs |-> objs, events |-> st.events, status |-> st.status,
     err |-> st.err, path |-> path, before |-> before, moved |-> moved]

NoOp == [op |-> "none", fn |-> "", objs |-> <<>>, events |-> <<>>, status |-> "",
         err |-> "", path |-> "", before |-> <<>>, moved |-> <<>>]

PtrsBefore(objs) == [i \in 1..Len(objs) |-> IF objs[i] = 0 THEN NULL ELSE heap[objs[i]].ptr]

\* the wrapper's handle is given away when it is a Value argument of a call that
\* reached the native function
MovedAfter(f, objs, st) ==
    [k \in 1..Len(st.heap) |->
        IF /\ NativeEvents(st.events) # {}
           /\ \E i \in 1..Len(objs) :
                 /\ objs[i] = k
                 /\ f.inputs[i].ty.is_custom /\ f.inputs[i].ty.kind = "Value"
        THEN heap[k].ptr
        ELSE IF k <= Len(moved) THEN moved[k] ELSE NULL]

InitRt ==
    /\ model \in RtModels
    /\ heap = <<Wrapper("Run", 1), Wrapper("Timer", 2)>>
    /\ stack = <<>>
    /\ pending = "none"
    /\ last = NoOp
    /\ moved = <<NULL, NULL>>
    /\ drops = <<0, 0>>
    /\ ty = Ty("()", "Value", FALSE, FALSE) /\ mapped = NoMapping
    /\ function = NoFn /\ binding = <<>> /\ frame = NoFrame
    /\ classes = <<>> /\ type_script = FALSE /\ out = <<>> /\ gpc = "idle"

\* the program calls wrapper m with arguments a
Called(m, a) ==
    \E f \in {FnOf(m)} :
    /\ f.output.is_custom => Len(heap) < MaxHeap
    /\ \E raw \in RawResults(f, heap) :
          \E st \in {RunBody(m.body, 1, Frame(heap, EnvOf(f, a), m.body, "run"), raw)} :
          /\ heap' = st.heap
          /\ moved' = MovedAfter(f, ObjIds(a), st)
          /\ drops' = [k \in 1..Len(st.heap) |-> IF k <= Len(drops) THEN drops[k] ELSE 0]
          /\ pending' = IF st.status = "threw" /\ stack # <<>> THEN "throw" ELSE "none"
          /\ last' = Op("call", f.name, ObjIds(a), st, "", PtrsBefore(ObjIds(a)))
    /\ UNCHANGED <<model, stack, typeVars, fnVars, genVars>>

CallMethod ==
    /\ pending = "none"
    /\ \E o \in HeapIdx : \E ck \in InstanceWrappers(heap[o].cls) :
          \E a \in ArgTuples(FnOf(MethodAt(ck)), Obj(o)) : Called(MethodAt(ck), a)

CallStatic ==
    /\ pending = "none"
    /\ \E ck \in StaticWrappers :
          \E a \in ArgTuples(FnOf(MethodAt(ck)), JSNull) : Called(MethodAt(ck), a)

\* o.dispose() run to its end: the heap, the destructor count, the record
Disposing(o, op, path) ==
    \E ck \in Lookup(heap[o].cls, "dispose") :
        \E st \in {RunBody(MethodAt(ck).body, 1,
                            Frame(heap, [n \in {"this"} |-> Obj(o)], MethodAt(ck).body,
                                  "run"), NULL)} :
           /\ heap' = st.heap
           /\ drops' = [drops EXCEPT ![o] = @ + Cardinality(NativeEvents(st.events))]
           /\ last' = Op(op, MethodAt(ck).body[1].fn, <<o>>, st, path, <<heap[o].ptr>>)

Dispose ==
    /\ pending = "none"
    /\ \E o \in HeapIdx : Disposing(o, "dispose", "")
    /\ UNCHANGED <<model, stack, pending, moved, typeVars, fnVars, genVars>>

\* o.with(closure): the closure starts running
WithEnter ==
    /\ pending = "none"
    /\ Len(stack) < MaxDepth
    /\ \E o \in HeapIdx :
          /\ Lookup(heap[o].cls, "with") # {}
          /\ stack' = Append(stack, o)
    /\ last' = NoOp
    /\ UNCHANGED <<model, heap, pending, moved, drops, typeVars, fnVars, genVars>>

Top == stack[Len(stack)]
Pop == SubSeq(stack, 1, Len(stack) - 1)

\* the closure returns: the statement after it runs
ClosureReturn ==
    /\ pending = "none"
    /\ stack # <<>>
    /\ Disposing(Top, "with", "normal")
    /\ stack' = Pop
    /\ UNCHANGED <<model, pending, moved, typeVars, fnVars, genVars>>

\* the closure's own code raises an error
ClosureThrow ==
    /\ pending = "none"
    /\ stack # <<>>
    /\ pending' = "throw"
    /\ last' = NoOp
    /\ UNCHANGED <<model, heap, stack, moved, drops, typeVars, fnVars, genVars>>

\* an error leaves the innermost `with`: its finally clause runs, the error goes on
Unwind ==
    /\ pending = "throw"
    /\ stack # <<>>
    /\ \E ck \in Lookup(heap[Top].cls, "with") :
          IF MethodAt(ck).body[1].flag
          THEN Disposing(Top, "with", "error")
          ELSE /\ last' = Op("with", "", <<Top>>, Frame(heap, <<>>, <<>>, "threw"),
                             "error", <<heap[Top].ptr>>)
               /\ UNCHANGED <<heap, drops>>
    /\ stack' = Pop
    /\ pending' = IF Len(stack) = 1 THEN "none" ELSE "throw"
    /\ UNCHANGED <<model, moved, typeVars, fnVars, genVars>>

Next ==
    \/ CallMethod
    \/ CallStatic
    \/ Dispose
    \/ WithEnter
    \/ ClosureReturn
    \/ ClosureThrow
    \/ Unwind

Spec == InitRt /\ [][Next]_vars

(***************************************************************************)
(* Properties of the emitted classes at run time (Spec).                   *)
(***************************************************************************)
\* the destructor the class map declares for the owning class cls, "" when none
DeclaredDrop(cls) ==
    LET e == Running.classes[CHOOSE k \in 1..Len(Running.classes) :
                                 Running.classes[k].name = cls]
        d == {k \in 1..Len(e.class.own_fns) : e.class.own_fns[k].method = "drop"}
    IN IF d = {} THEN "" ELSE e.class.own_fns[CHOOSE k \in d : \A j \in d : k <= j].name

LastNatives == NativeEvents(last.events)
IsEffect(ev) == ev.e \in {"native", "setnull"}
\* what the last operation did to the native library and to handles, in order
LastEffects == SelectSeq(last.events, IsEffect)
\* the wrapper the last dispose or with acted on, and its handle before
LastObj == last.objs[1]
LastHandle == last.before[1]

\* C4: dispose on a wrapper whose handle is null does nothing; otherwise it calls the
\* class's native destructor (when the class declares one) with the handle, then nulls
\* the handle.  Over any sequence of calls the destructor runs at most once per wrapper.
C4_DisposeIdempotent ==
    /\ \A o \in HeapIdx : drops[o] <= 1
    /\ last.op = "dispose" =>
          /\ heap[LastObj].ptr = NULL
          /\ last.status = "returned"
          /\ LastHandle = NULL => LastEffects = <<>>
          /\ LastHandle # NULL =>
                LastEffects =
                    (IF DeclaredDrop(heap[LastObj].cls) # ""
                     THEN <<Ev("native", DeclaredDrop(heap[LastObj].cls), <<LastHandle>>)>>
                     ELSE <<>>) \o <<Ev("setnull", "this", <<>>)>>

\* a second dispose of a wrapper whose destructor already ran: nothing happens
C4_Witness ==
    /\ last.op = "dispose"
    /\ LastHandle = NULL
    /\ drops[LastObj] = 1
    /\ moved[LastObj] = NULL
    /\ LastEffects = <<>>

\* C5 as stated: when `with` exits, on either path, the handle is null, and if it was
\* live at the end of the closure the native destructor was invoked exactly once on it.
C5_WithDestroysOnce ==
    last.op = "with" =>
        /\ heap[LastObj].ptr = NULL
        /\ LastHandle # NULL =>
              /\ Cardinality(LastNatives) = 1
              /\ \A k \in LastNatives : last.events[k].handles = <<LastHandle>>

\* C5 amended: when `with` exits, whether the closure returned or raised, the handle is
\* null; if it was live at the end of the closure and the class declares a destructor,
\* that destructor was invoked exactly once with the handle; if the class declares
\* none, or the handle was already null, no native call was made.
C5_WithDisposes ==
    last.op = "with" =>
        /\ last.path \in {"normal", "error"}
        /\ heap[LastObj].ptr = NULL
        /\ (LastHandle # NULL /\ DeclaredDrop(heap[LastObj].cls) # "") =>
              /\ Cardinality(LastNatives) = 1
              /\ \A k \in LastNatives :
                    last.events[k] =
                        Ev("native", DeclaredDrop(heap[LastObj].cls), <<LastHandle>>)
        /\ (LastHandle = NULL \/ DeclaredDrop(heap[LastObj].cls) = "") =>
              LastNatives = {}

\* a closure raised while the handle was live: the destructor ran on the way out
C5_Witness ==
    /\ last.op = "with"
    /\ last.path = "error"
    /\ LastHandle # NULL
    /\ Cardinality(LastNatives) = 1
    /\ heap[LastObj].ptr = NULL

\* argument i of the last operation is a wrapper whose handle was given away before
Gone(i) == last.objs[i] # 0 /\ last.moved[last.objs[i]] # NULL
LastFn == Running.fns[CHOOSE k \in 1..Len(Running.fns) : Running.fns[k].name = last.fn]

\* the part of C6 about the native library: no operation passes a handle that its
\* wrapper gave away, and an operation on such a wrapper makes no native call
NoStaleHandle ==
    /\ \A k \in LastNatives : \A i \in 1..Len(last.objs) :
          Gone(i) => last.events[k].handles[i] # last.moved[last.objs[i]]
    /\ (\E i \in 1..Len(last.objs) : Gone(i)) => LastNatives = {}

\* C6: once a wrapper was passed as a Value argument to a call that reached the native
\* function, no later operation on it reaches the native library with that handle: a
\* later dispose or with-exit makes no destructor call, and a later wrapper call taking
\* it as receiver or argument throws the disposed error before the native invocation.
C6_NoUseAfterTransfer ==
    /\ NoStaleHandle
    /\ (last.op = "call" /\ \E i \in 1..Len(last.objs) : Gone(i)) =>
          /\ last.status = "threw"
          /\ \E i \in 1..Len(last.objs) :
                last.err = Disposed(to_mixed_case(LastFn.inputs[i].name))

====
